---- MODULE Spec2Model ----
(***************************************************************************)
(* The retrieval-augmented query engine of the CV site: the vector store   *)
(* search, the searchCV tool, the UI-message adapter, the agent with its   *)
(* stream() calls and the chat request handler.                            *)
(*                                                                         *)
(* JavaScript values are tagged records: [t |-> "string", v |-> ...],      *)
(* [t |-> "number", v |-> ...], [t |-> "null"], [t |-> "undefined"],       *)
(* [t |-> "array", v |-> <<...>>], [t |-> "object", ...], so that typeof,  *)
(* Array.isArray and schema checks are decided as the code decides them.   *)
(* Similarities and distances are fixed-point numbers in units of 1/10000. *)
(***************************************************************************)
EXTENDS Integers, Sequences, FiniteSets, TLC

VARIABLES
    store,      \* cv_embeddings: the stored rows, in storage order
    vsCall,     \* the last NeonVectorStore.search call and its outcome
    tool,       \* the searchCV tool invocation in progress
    uiMessages, \* the value passed to toModelMessages
    maCalls,    \* the toModelMessages calls made on it, by caller
    config,     \* the configuration createCVAgent built for the agent
    requests,   \* the stream() calls on the agent, by request
    http,       \* the chat request the POST handler is serving
    hist,       \* useCommandHistory: input, commandHistory, historyIndex
    term        \* the terminal: TerminalWrapper, RAGTerminal and its chat

vsVars == <<store, vsCall>>
toolVars == <<tool>>
maVars == <<uiMessages, maCalls>>
agentVars == <<config, requests>>
httpVars == <<http>>
uiVars == <<hist, term>>
vars == <<store, vsCall, tool, uiMessages, maCalls, config, requests, http,
          hist, term>>

\* what each component leaves alone
otherThanVS == <<tool, uiMessages, maCalls, config, requests, http, uiVars>>
otherThanTool == <<vsCall, uiMessages, maCalls, config, requests, http, uiVars>>
otherThanMA == <<store, vsCall, tool, config, requests, http, uiVars>>
otherThanAgent == <<store, vsCall, tool, uiMessages, maCalls, http, uiVars>>
otherThanHttp ==
    <<store, vsCall, tool, uiMessages, maCalls, config, requests, uiVars>>
otherThanUI ==
    <<store, vsCall, tool, uiMessages, maCalls, config, requests, http>>

----------------------------------------------------------------------------
(* Bounds *)

MaxRows == 3        \* rows in cv_embeddings
MaxLimit == 3       \* largest explicit limit / maxResults tried
MaxMsgs == 3        \* entries in a UI message list
MaxChunks == 2      \* text chunks the model streams in one request
MaxHistory == 3     \* commands added to the history of the terminal
MaxSends == 2       \* messages the terminal sends to the chat
MaxCloseTimers == 2 \* close animations of the terminal pending at once

----------------------------------------------------------------------------
(* JavaScript / SQL values *)

JsNull == [t |-> "null"]
Undefined == [t |-> "undefined"]
Num(n) == [t |-> "number", v |-> n]
Str(s) == [t |-> "string", v |-> s]
Arr(s) == [t |-> "array", v |-> s]

\* typeof x
TypeOf(x) == IF x.t \in {"null", "array", "object"} THEN "object" ELSE x.t

\* Array.isArray(x)
IsArray(x) == x.t = "array"

IsString(x) == x.t = "string"
IsNumber(x) == x.t = "number"

\* z.string().optional(): a string, or the key is absent
IsOptionalString(x) == x.t = "string" \/ x.t = "undefined"

----------------------------------------------------------------------------
(* Agent configuration defaults: DEFAULT_AGENT_CONFIG *)

maxToolSteps == 5
defaultSearchLimit == 5
similarityThreshold == 3000     \* 0.3
requestTimeoutMs == 60000

DEFAULT_AGENT_CONFIG ==
    [maxToolSteps |-> maxToolSteps,
     defaultSearchLimit |-> defaultSearchLimit,
     similarityThreshold |-> similarityThreshold,
     requestTimeoutMs |-> requestTimeoutMs]

\* The config a caller passes to createCVAgent: any part of the fields
ConfigOverrides ==
    { <<>>,
      [defaultSearchLimit |-> 2],
      [similarityThreshold |-> 5000],
      [maxToolSteps |-> 1],
      [maxToolSteps |-> 2, requestTimeoutMs |-> 1] }

\* The overrides that bound the steps of a stream() call below the default
StepOverrides == {o \in ConfigOverrides : "maxToolSteps" \in DOMAIN o}

\* { ...DEFAULT_AGENT_CONFIG, ...configOverrides }
MergeConfig(defaults, configOverrides) ==
    [f \in DOMAIN defaults |->
        IF f \in DOMAIN configOverrides THEN configOverrides[f] ELSE defaults[f]]

\* the similarity 1.0 of "1 - (embedding <=> q)"
SimOne == 10000

----------------------------------------------------------------------------
(* The cv_embeddings table *)

QueryEmbeddings == {"e1", "e2"}
StoredEmbeddings == {"v1", "v2", "v3"}

\* pgvector's cosine distance operator <=> between the query embedding and a
\* stored embedding (NULL when the stored embedding is NULL).
CosineDistance(q, v) ==
    IF v = "NULL" THEN JsNull
    ELSE Num(CASE q = "e1" /\ v = "v1" -> 1000      \* similarity 0.9
              [] q = "e1" /\ v = "v2" -> 5000       \* similarity 0.5
              [] q = "e1" /\ v = "v3" -> 8000       \* similarity 0.2
              [] q = "e2" /\ v = "v1" -> 7004       \* similarity 0.2996
              [] q = "e2" /\ v = "v2" -> 7000       \* similarity 0.3
              [] q = "e2" /\ v = "v3" -> 1000)      \* similarity 0.9

MetaFull == [t |-> "object", node_id |-> Str("NODE_01"), category |-> Str("skills"),
             header |-> Undefined]
MetaEmpty == [t |-> "object", node_id |-> Undefined, category |-> Undefined,
              header |-> Undefined]
MetaBadNodeId == [t |-> "object", node_id |-> Num(7), category |-> Str("skills"),
                  header |-> Undefined]

\* Rows that satisfy embeddingResultSchema once queried
GoodRows ==
    { [content |-> Str("chunk"), metadata |-> MetaFull, embedding |-> "v1"],
      [content |-> Str("chunk"), metadata |-> MetaFull, embedding |-> "v2"],
      [content |-> Str("chunk"), metadata |-> MetaEmpty, embedding |-> "v3"] }

\* Rows that fail it: metadata of the wrong shape (close to the query e1), and
\* a NULL embedding (so a NULL similarity)
BadRows ==
    { [content |-> Str("chunk"), metadata |-> MetaBadNodeId, embedding |-> "v1"],
      [content |-> Str("chunk"), metadata |-> MetaFull, embedding |-> "NULL"] }

StoredRows == GoodRows \cup BadRows

Stores == UNION { [1..n -> StoredRows] : n \in 0..MaxRows }

----------------------------------------------------------------------------
(* NeonVectorStore.search *)

\* The SELECT list: content, metadata, 1 - distance AS similarity.  id is the
\* row's storage position (not a selected column; kept to tell rows apart).
SelectRow(st, i, q) ==
    LET d == CosineDistance(q, st[i].embedding)
    IN [id |-> i,
        content |-> st[i].content,
        metadata |-> st[i].metadata,
        similarity |-> IF d.t = "null" THEN JsNull ELSE Num(SimOne - d.v)]

\* ORDER BY embedding <=> q (ascending, NULLS LAST)
DistanceLE(st, q, i, j) ==
    LET di == CosineDistance(q, st[i].embedding)
        dj == CosineDistance(q, st[j].embedding)
    IN \/ dj.t = "null"
       \/ di.t = "number" /\ dj.t = "number" /\ di.v <= dj.v

\* Every order the ORDER BY may produce: rows of equal distance come in any
\* order, since the query names no second sort key.
Orderings(st, q) ==
    LET n == Len(st) IN
    { p \in [1..n -> 1..n] :
        /\ \A i, j \in 1..n : i # j => p[i] # p[j]
        /\ \A i, j \in 1..n : i < j => DistanceLE(st, q, p[i], p[j]) }

Min(a, b) == IF a <= b THEN a ELSE b

\* (mutant) the query without its LIMIT clause
SqlQueryNoLimit(st, q, limit, p) ==
    [k \in 1..Len(st) |-> SelectRow(st, p[k], q)]

\* ORDER BY ... LIMIT limit, for one of the possible orderings p
SqlQuery(st, q, limit, p) ==
    [k \in 1..Min(limit, Len(st)) |-> SelectRow(st, p[k], q)]

\* cvNodeMetadataSchema
MetadataOk(m) ==
    /\ m.t = "object"
    /\ IsOptionalString(m.node_id)
    /\ IsOptionalString(m.category)
    /\ IsOptionalString(m.header)

\* embeddingResultSchema.safeParse(row).success
SchemaOk(row) ==
    /\ IsString(row.content)
    /\ MetadataOk(row.metadata)
    /\ IsNumber(row.similarity)

\* parseResult: the parsed row, or null for a row that fails the schema
parseResult(row) == IF SchemaOk(row) THEN row ELSE JsNull

\* (mutant) the threshold comparison left out of the filter
KeepResultNoThreshold(r, threshold) == r # JsNull

\* .filter(r => r !== null && r.similarity >= threshold)
KeepResult(r, threshold) == r # JsNull /\ r.similarity.v >= threshold

\* results.map(parseResult).filter(...)
FilterResults(rows, threshold) ==
    LET parsed == [k \in 1..Len(rows) |-> parseResult(rows[k])]
    IN SelectSeq(parsed, LAMBDA r : KeepResult(r, threshold))

\* options defaults: { limit = defaultSearchLimit, threshold = similarityThreshold }
OptLimit(limit) == IF limit.t = "undefined" THEN defaultSearchLimit ELSE limit.v
OptThreshold(threshold) ==
    IF threshold.t = "undefined" THEN similarityThreshold ELSE threshold.v

NoCall == [status |-> "none"]

Limits == {Num(1), Num(2), Undefined}
Thresholds == {Num(2000), Num(5000), Undefined}

\* (mutant) schema.parse in place of safeParse: a malformed row throws and the
\* whole search rejects
VSSearchStrict(q, limit, threshold, p) ==
    LET rows == SqlQuery(store, q, OptLimit(limit), p)
    IN /\ vsCall' = IF \A k \in 1..Len(rows) : SchemaOk(rows[k])
                     THEN [status |-> "returned",
                           embedding |-> q,
                           limit |-> OptLimit(limit),
                           threshold |-> OptThreshold(threshold),
                           rows |-> rows,
                           results |-> FilterResults(rows, OptThreshold(threshold))]
                     ELSE [status |-> "rejected", cause |-> "parse"]
       /\ UNCHANGED <<store, otherThanVS>>

\* One search(embedding, {limit, threshold}) call against the store, the SQL
\* query returning its rows in the order p
VSSearch(q, limit, threshold, p) ==
    LET rows == SqlQuery(store, q, OptLimit(limit), p)
    IN /\ vsCall' = [status |-> "returned",
                     embedding |-> q,
                     limit |-> OptLimit(limit),
                     threshold |-> OptThreshold(threshold),
                     rows |-> rows,
                     results |-> FilterResults(rows, OptThreshold(threshold))]
       /\ UNCHANGED <<store, otherThanVS>>

\* the SQL query rejects (connection lost, bad vector): search rejects with it
VSSearchFails(q, limit, threshold) ==
    /\ vsCall' = [status |-> "rejected", cause |-> "sql"]
    /\ UNCHANGED <<store, otherThanVS>>

\* One call per behaviour: the caller passes any embedding and options
Search ==
    /\ vsCall = NoCall
    /\ \E q \in QueryEmbeddings, limit \in Limits, threshold \in Thresholds :
          \E p \in Orderings(store, q) : VSSearch(q, limit, threshold, p)

SearchFails ==
    /\ vsCall = NoCall
    /\ \E q \in QueryEmbeddings, limit \in Limits, threshold \in Thresholds :
          VSSearchFails(q, limit, threshold)

----------------------------------------------------------------------------
(* Components at rest *)

ToolIdle == [pc |-> "idle"]

Callers == {"c1", "c2"}

AdapterIdle == [pc |-> "idle"]

NoAdapterCalls == [c \in Callers |-> AdapterIdle]

Requests == {"r1", "r2"}

\* stream() has not been called
NotStarted == [pc |-> "none"]

NoRequests == [r \in Requests |-> NotStarted]

\* no chat request has reached the POST handler
HttpIdle == [pc |-> "idle"]

\* useCommandHistory as useState initialises it
NoHistory == [input |-> "", commandHistory |-> <<>>, historyIndex |-> -1]

\* the terminal is not on the page
NotMounted == [mounted |-> FALSE]

----------------------------------------------------------------------------
(* Specification of the vector store *)

InitVS ==
    /\ store \in Stores
    /\ vsCall = NoCall
    /\ tool = ToolIdle
    /\ uiMessages = Undefined
    /\ maCalls = NoAdapterCalls
    /\ config = DEFAULT_AGENT_CONFIG
    /\ requests = NoRequests
    /\ http = HttpIdle
    /\ hist = NoHistory
    /\ term = NotMounted

NextVS == Search \/ SearchFails

SpecVS == InitVS /\ [][NextVS]_vars

----------------------------------------------------------------------------
(* Claims about the vector store, checked under SpecVS *)

Returned == vsCall.status = "returned"

Sim(r) == r.similarity.v

\* C1: every result of a search has similarity >= the threshold of the call,
\* and the results are in descending order of similarity.
C1_ThresholdAndOrder ==
    Returned =>
        LET res == vsCall.results IN
        /\ \A i \in 1..Len(res) : Sim(res[i]) >= vsCall.threshold
        /\ \A i, j \in 1..Len(res) : i < j => Sim(res[i]) >= Sim(res[j])

\* C1 witness: a search returned two results of different similarity and
\* dropped a well-formed row that was below the threshold.
C1_Witness ==
    /\ Returned
    /\ Len(vsCall.results) >= 2
    /\ Sim(vsCall.results[1]) > Sim(vsCall.results[2])
    /\ \E k \in 1..Len(vsCall.rows) :
          /\ SchemaOk(vsCall.rows[k])
          /\ Sim(vsCall.rows[k]) < vsCall.threshold

\* The stored rows with their similarity to the query of the last call
Scored == [i \in 1..Len(store) |-> SelectRow(store, i, vsCall.embedding)]

\* r comes no later than s when all rows are ordered by similarity descending
\* (a row without a similarity comes last)
SimGE(r, s) ==
    \/ s.similarity.t = "null"
    \/ r.similarity.t = "number" /\ s.similarity.t = "number" /\ Sim(r) >= Sim(s)

\* The first `limit` rows of an ordering of all stored rows by similarity
\* descending
TopRows ==
    LET n == Len(store)
        m == Min(vsCall.limit, n)
    IN { [k \in 1..m |-> Scored[p[k]]] :
           p \in { f \in [1..n -> 1..n] :
                     /\ \A i, j \in 1..n : i # j => f[i] # f[j]
                     /\ \A i, j \in 1..n :
                           i < j => SimGE(Scored[f[i]], Scored[f[j]]) } }

AtLeastThreshold(r) == r.similarity.t = "number" /\ Sim(r) >= vsCall.threshold

\* C2 as stated: the results are the first `limit` rows by similarity
\* descending, less those below the threshold (and nothing else is dropped).
C2_Original ==
    Returned =>
        \E top \in TopRows :
            vsCall.results = SelectSeq(top, AtLeastThreshold)

\* The similarities of a list of rows that all have one
Sims(rows) == [k \in 1..Len(rows) |-> Sim(rows[k])]

\* Scenario 3 of the spec: three chunks of similarity 0.9, 0.5 and 0.2,
\* searched with threshold 0.3 and limit 5
Scenario3 ==
    /\ Returned
    /\ vsCall.limit = 5
    /\ vsCall.threshold = 3000
    /\ Len(store) = 3
    /\ \A k \in 1..3 : SchemaOk(vsCall.rows[k])
    /\ Sims(vsCall.rows) = <<9000, 5000, 2000>>

\* C2 amended: the results are the first `limit` rows by similarity
\* descending, less the malformed rows and those below the threshold; so never
\* more than `limit` results, and scenario 3 gives exactly [0.9, 0.5].
C2_LimitThenFilter ==
    Returned =>
        /\ Len(vsCall.results) <= vsCall.limit
        /\ \E top \in TopRows :
              vsCall.results =
                  SelectSeq(top, LAMBDA r : SchemaOk(r) /\ AtLeastThreshold(r))
        /\ Scenario3 => Sims(vsCall.results) = <<9000, 5000>>

\* C2 witness: a search returned `limit` results although more well-formed
\* stored rows than that met the threshold (the limit is applied first).
C2_Witness ==
    /\ Returned
    /\ Len(vsCall.results) = vsCall.limit
    /\ Cardinality({ i \in 1..Len(store) :
                       SchemaOk(Scored[i]) /\ AtLeastThreshold(Scored[i]) })
          > vsCall.limit

Ids(rows) == { rows[k].id : k \in 1..Len(rows) }

Pos(rows, id) == CHOOSE k \in 1..Len(rows) : rows[k].id = id

\* C3: a malformed row among the rows of the query never makes the search
\* fail; the results are exactly the well-formed rows of the query that meet
\* the threshold, in the order the query returned them.
C3_MalformedSkipped ==
    /\ vsCall.status = "rejected" => vsCall.cause = "sql"
    /\ Returned =>
          LET res == vsCall.results
              rows == vsCall.rows
          IN /\ Ids(res) = { rows[k].id : k \in { k \in 1..Len(rows) :
                                SchemaOk(rows[k]) /\ AtLeastThreshold(rows[k]) } }
             /\ \A i \in 1..Len(res) : res[i] = rows[Pos(rows, res[i].id)]
             /\ \A i, j \in 1..Len(res) :
                   i < j => Pos(rows, res[i].id) < Pos(rows, res[j].id)

\* C3 witness: the query returned a malformed row between two well-formed
\* ones, and both well-formed rows were returned.
C3_Witness ==
    /\ Returned
    /\ Len(vsCall.rows) = 3
    /\ SchemaOk(vsCall.rows[1])
    /\ ~SchemaOk(vsCall.rows[2])
    /\ SchemaOk(vsCall.rows[3])
    /\ Len(vsCall.results) = 2

----------------------------------------------------------------------------
(* UI messages.  A text is a sequence of tokens; the token 10 * p + k is the
   k-th text of the entry at position p of the list, so that every text of an
   input is told apart from every other. *)

Token(p, k) == 10 * p + k

TextPart(txt) == [t |-> "object", type |-> "text", text |-> txt]
ReasoningPart(txt) == [t |-> "object", type |-> "reasoning", text |-> txt]
StepStart == [t |-> "object", type |-> "step-start"]
ToolPart(state) == [t |-> "object", type |-> "tool-searchCV", state |-> state]

UIMessage(role, parts) == [t |-> "object", role |-> role, parts |-> parts]

EntryKinds ==
    { "null", "undefined", "string", "noRole", "numberRole", "badRole",
      "noParts", "user", "userEmpty", "system", "assistantTool",
      "assistantSteps", "assistantToolOnly" }

\* The entry of each kind at position p of the list
Entry(kind, p) ==
    CASE kind = "null" -> JsNull
      [] kind = "undefined" -> Undefined
      [] kind = "string" -> Str(<<Token(p, 1)>>)
      [] kind = "noRole" ->
            UIMessage(Undefined, Arr(<<TextPart(<<Token(p, 1)>>)>>))
      [] kind = "numberRole" ->
            UIMessage(Num(123), Arr(<<TextPart(<<Token(p, 1)>>)>>))
      [] kind = "badRole" ->
            UIMessage(Str("invalid"), Arr(<<TextPart(<<Token(p, 1)>>)>>))
      [] kind = "noParts" ->
            UIMessage(Str("user"), Str(<<Token(p, 1)>>))
      [] kind = "user" ->
            UIMessage(Str("user"),
                      Arr(<<TextPart(<<Token(p, 1)>>), TextPart(<<Token(p, 2)>>)>>))
      [] kind = "userEmpty" ->
            UIMessage(Str("user"), Arr(<<TextPart(<<>>)>>))
      [] kind = "system" ->
            UIMessage(Str("system"),
                      Arr(<<TextPart(<<Token(p, 1)>>), TextPart(<<Token(p, 2)>>)>>))
      [] kind = "assistantTool" ->
            UIMessage(Str("assistant"),
                      Arr(<<TextPart(<<Token(p, 1)>>),
                            ToolPart("output-available"),
                            TextPart(<<Token(p, 2)>>)>>))
      [] kind = "assistantSteps" ->
            UIMessage(Str("assistant"),
                      Arr(<<ReasoningPart(<<Token(p, 9)>>),
                            TextPart(<<Token(p, 1)>>),
                            StepStart,
                            ToolPart("input-available"),
                            StepStart,
                            TextPart(<<Token(p, 2)>>)>>))
      [] kind = "assistantToolOnly" ->
            UIMessage(Str("assistant"), Arr(<<ToolPart("output-available")>>))

\* The values a caller may pass: lists of entries, and values that are no list
MessageLists ==
    { Arr([p \in DOMAIN kinds |-> Entry(kinds[p], p)]) :
        kinds \in UNION { [1..n -> EntryKinds] : n \in 0..MaxMsgs } }

NonLists == { JsNull, Undefined, Str(<<Token(0, 1)>>) }

Inputs == MessageLists \cup NonLists

----------------------------------------------------------------------------
(* isValidUIMessage *)

ValidRoles == {"user", "assistant", "system"}

\* (mutant) any string is accepted as a role
isValidUIMessageAnyRole(msg) ==
    IF TypeOf(msg) # "object" \/ msg = JsNull
    THEN FALSE
    ELSE /\ TypeOf(msg.role) = "string"
         /\ IsArray(msg.parts)

isValidUIMessage(msg) ==
    IF TypeOf(msg) # "object" \/ msg = JsNull
    THEN FALSE
    ELSE /\ TypeOf(msg.role) = "string"
         /\ msg.role.v \in ValidRoles
         /\ IsArray(msg.parts)

----------------------------------------------------------------------------
(* convertToModelMessages(validMessages, {ignoreIncompleteToolCalls: true}) of
   the AI SDK *)

RECURSIVE Join(_)
\* texts.join('')
Join(texts) == IF texts = <<>> THEN <<>> ELSE Head(texts) \o Join(Tail(texts))

RECURSIVE Flatten(_)
\* the concatenation of a list of lists
Flatten(lists) == IF lists = <<>> THEN <<>> ELSE Head(lists) \o Flatten(Tail(lists))

\* the texts of a list of parts that have one
Texts(parts) == [k \in DOMAIN parts |-> parts[k].text]

IsToolPart(part) == part.type = "tool-searchCV"

\* ignoreIncompleteToolCalls: tool parts whose input is still streaming or
\* only available are removed
CompleteParts(parts) ==
    SelectSeq(parts, LAMBDA part :
        ~IsToolPart(part) \/ part.state \notin {"input-streaming", "input-available"})

\* A part as it appears in a model message's content
ModelPart(part) ==
    CASE part.type = "text" -> [type |-> "text", text |-> Str(part.text)]
      [] part.type = "reasoning" -> [type |-> "reasoning", text |-> Str(part.text)]
      [] IsToolPart(part) -> [type |-> "tool-call", toolName |-> "searchCV"]

\* the model parts of a list of UI parts
ModelParts(parts) == [k \in DOMAIN parts |-> ModelPart(parts[k])]

\* the tool-result parts of the tool parts of a block
ToolResults(block) ==
    LET toolParts == SelectSeq(block, IsToolPart)
    IN [k \in DOMAIN toolParts |-> [type |-> "tool-result", toolName |-> "searchCV"]]

\* One block of an assistant message (the parts between two step-start
\* parts): an assistant message, then a tool message with the results of the
\* block's tool calls when it has any
AssistantBlock(block) ==
    IF block = <<>> THEN <<>>
    ELSE <<[role |-> "assistant", content |-> Arr(ModelParts(block))]>>
         \o (IF \E k \in DOMAIN block : IsToolPart(block[k])
             THEN <<[role |-> "tool", content |-> Arr(ToolResults(block))]>>
             ELSE <<>>)

RECURSIVE AssistantBlocks(_, _)
\* The model messages of an assistant message's parts, block by block
AssistantBlocks(parts, block) ==
    IF parts = <<>> THEN AssistantBlock(block)
    ELSE IF Head(parts).type = "step-start"
         THEN AssistantBlock(block) \o AssistantBlocks(Tail(parts), <<>>)
         ELSE AssistantBlocks(Tail(parts), Append(block, Head(parts)))

IsTextUIPart(part) == part.type = "text"

\* The model messages of one UI message
ConvertMessage(msg) ==
    LET parts == CompleteParts(msg.parts.v) IN
    CASE msg.role.v = "system" ->
            <<[role |-> "system",
               content |-> Str(Join(Texts(SelectSeq(parts, IsTextUIPart))))]>>
      [] msg.role.v = "user" ->
            <<[role |-> "user",
               content |-> Arr(ModelParts(SelectSeq(parts, IsTextUIPart)))]>>
      [] msg.role.v = "assistant" -> AssistantBlocks(parts, <<>>)
      [] OTHER -> <<>>

\* The conversion rejects a message whose role it does not know
ConversionThrows(validMessages) ==
    \E k \in DOMAIN validMessages :
        validMessages[k].role.v \notin {"system", "user", "assistant"}

convertToModelMessages(validMessages) ==
    Flatten([k \in DOMAIN validMessages |-> ConvertMessage(validMessages[k])])

----------------------------------------------------------------------------
(* UIMessageAdapter.toModelMessages *)

\* (mutant) every part that has a text counts as a text part
IsTextContentPartLoose(part) == "text" \in DOMAIN part

\* the filter of the content parts: an object with type 'text' and a text
IsTextContentPart(part) == part.type = "text" /\ "text" \in DOMAIN part

\* (mutant) parts without text are rendered by their type instead of dropped
ExtractTextAll(content) ==
    IF content.t = "string" THEN content.v
    ELSE Join([k \in DOMAIN content.v |->
                 IF IsTextContentPart(content.v[k]) THEN content.v[k].text.v
                 ELSE <<content.v[k].type>>])

\* textContent: the string content itself, or the texts of the text parts of
\* an array content joined
ExtractText(content) ==
    IF content.t = "string" THEN content.v
    ELSE LET textParts == SelectSeq(content.v, IsTextContentPart)
         IN Join([k \in DOMAIN textParts |-> textParts[k].text.v])

\* content that is neither a string nor an array is skipped
SupportedContent(content) == content.t = "string" \/ IsArray(content)

\* (mutant) empty messages are not skipped
IsSkippedNever(msg) == ~SupportedContent(msg.content)

\* the two `continue`s of the loop: unsupported content, empty text
IsSkipped(msg) ==
    \/ ~SupportedContent(msg.content)
    \/ Len(ExtractText(msg.content)) = 0

\* the loop over modelMessages building mappedMessages
MapMessages(modelMessages) ==
    LET kept == SelectSeq(modelMessages, LAMBDA msg : ~IsSkipped(msg))
    IN [k \in DOMAIN kept |->
           [role |-> kept[k].role, content |-> ExtractText(kept[k].content)]]

\* uiMessages.filter(isValidUIMessage)
ValidMessages(list) == SelectSeq(list, isValidUIMessage)

\* (mutant) no Array.isArray guard: filter is called on whatever was passed
\* and throws on a value that has no filter method
MACallUnguarded(c) ==
    /\ maCalls[c].pc = "idle"
    /\ maCalls' = [maCalls EXCEPT ![c] =
          IF ~IsArray(uiMessages)
          THEN [pc |-> "threw", converterCalled |-> FALSE]
          ELSE [pc |-> "converting", converterCalled |-> TRUE,
                validMessages |-> ValidMessages(uiMessages.v)]]
    /\ UNCHANGED <<uiMessages, otherThanMA>>

\* toModelMessages up to its await: the guards, the filter and the call of
\* convertToModelMessages
MACall(c) ==
    /\ maCalls[c].pc = "idle"
    /\ maCalls' = [maCalls EXCEPT ![c] =
          IF ~IsArray(uiMessages)
          THEN [pc |-> "returned", converterCalled |-> FALSE, output |-> <<>>]
          ELSE IF Len(ValidMessages(uiMessages.v)) = 0
          THEN [pc |-> "returned", converterCalled |-> FALSE, output |-> <<>>]
          ELSE [pc |-> "converting", converterCalled |-> TRUE,
                validMessages |-> ValidMessages(uiMessages.v)]]
    /\ UNCHANGED <<uiMessages, otherThanMA>>

\* (mutant) mappedMessages kept by the adapter across calls instead of being a
\* local of the call: a call returns what the earlier calls collected too
MAResumeShared(c) ==
    /\ maCalls[c].pc = "converting"
    /\ LET modelMessages == convertToModelMessages(maCalls[c].validMessages)
           others == { d \in Callers \ {c} : maCalls[d].pc = "returned" }
           earlier == IF others = {} THEN <<>>
                      ELSE maCalls[CHOOSE d \in others : TRUE].output
       IN maCalls' = [maCalls EXCEPT ![c] =
             [pc |-> "returned", converterCalled |-> TRUE,
              modelMessages |-> modelMessages,
              output |-> earlier \o MapMessages(modelMessages)]]
    /\ UNCHANGED <<uiMessages, otherThanMA>>

\* toModelMessages after its await: the conversion has settled; when it
\* resolved, the loop maps the model messages and the call returns
MAResume(c) ==
    /\ maCalls[c].pc = "converting"
    /\ LET modelMessages == convertToModelMessages(maCalls[c].validMessages)
       IN maCalls' = [maCalls EXCEPT ![c] =
             IF ConversionThrows(maCalls[c].validMessages)
             THEN [pc |-> "threw", converterCalled |-> TRUE]
             ELSE [pc |-> "returned", converterCalled |-> TRUE,
                   modelMessages |-> modelMessages,
                   output |-> MapMessages(modelMessages)]]
    /\ UNCHANGED <<uiMessages, otherThanMA>>

Call == \E c \in Callers : MACall(c)

Resume == \E c \in Callers : MAResume(c)

----------------------------------------------------------------------------
(* Specification of the message adapter: two callers pass the same value *)

InitMA ==
    /\ uiMessages \in Inputs
    /\ maCalls = NoAdapterCalls
    /\ store = <<>>
    /\ vsCall = NoCall
    /\ tool = ToolIdle
    /\ config = DEFAULT_AGENT_CONFIG
    /\ requests = NoRequests
    /\ http = HttpIdle
    /\ hist = NoHistory
    /\ term = NotMounted

NextMA == Call \/ Resume

SpecMA == InitMA /\ [][NextMA]_vars

----------------------------------------------------------------------------
(* Claims about the message adapter, checked under SpecMA *)

HasReturned(c) == maCalls[c].pc = "returned"

\* The entries the claims call malformed: null or undefined, no object, role
\* missing or no string, role outside the three, parts no array
Malformed(entry) ==
    \/ entry.t \in {"null", "undefined"}
    \/ entry.t # "object"
    \/ entry.role.t # "string"
    \/ entry.role.v \notin {"user", "assistant", "system"}
    \/ entry.parts.t # "array"

RECURSIVE TextTokens(_)
\* The tokens of the text parts of a list of UI parts, in order
TextTokens(parts) ==
    IF parts = <<>> THEN <<>>
    ELSE (IF Head(parts).type = "text" THEN Head(parts).text ELSE <<>>)
         \o TextTokens(Tail(parts))

RECURSIVE WellFormedTokens(_)
\* The text tokens of the well-formed entries of a list, in order
WellFormedTokens(list) ==
    IF list = <<>> THEN <<>>
    ELSE (IF Malformed(Head(list)) THEN <<>> ELSE TextTokens(Head(list).parts.v))
         \o WellFormedTokens(Tail(list))

RECURSIVE OutputTokens(_)
\* The tokens of the contents of a list of output messages, in order
OutputTokens(out) ==
    IF out = <<>> THEN <<>> ELSE Head(out).content \o OutputTokens(Tail(out))

\* The position in the input of the entry a token belongs to
PositionOf(token) == token \div 10

\* C4: on a list, toModelMessages never raises and drops every malformed
\* entry; each output message carries text of one well-formed entry only, with
\* that entry's role, and the output follows the order of the input.
C4_MalformedDroppedOrderKept ==
    IsArray(uiMessages) =>
        \A c \in Callers :
            /\ maCalls[c].pc # "threw"
            /\ HasReturned(c) =>
                  LET out == maCalls[c].output
                      list == uiMessages.v
                  IN /\ OutputTokens(out) = WellFormedTokens(list)
                     /\ \A i \in DOMAIN out :
                           \A k \in DOMAIN out[i].content :
                               LET p == PositionOf(out[i].content[k])
                               IN /\ p \in DOMAIN list
                                  /\ ~Malformed(list[p])
                                  /\ out[i].role = list[p].role.v
                                  /\ p = PositionOf(out[i].content[1])
                     /\ \A i, j \in DOMAIN out :
                           i < j => PositionOf(out[i].content[1])
                                       <= PositionOf(out[j].content[1])

\* C4 witness: a malformed entry that carries a text stands between two
\* well-formed entries, and the call returned the messages of these two.
C4_Witness ==
    /\ IsArray(uiMessages)
    /\ Len(uiMessages.v) = 3
    /\ Malformed(uiMessages.v[2])
    /\ uiMessages.v[2].t = "object"
    /\ \E c \in Callers :
          /\ HasReturned(c)
          /\ Len(maCalls[c].output) = 2
          /\ PositionOf(maCalls[c].output[1].content[1]) = 1
          /\ PositionOf(maCalls[c].output[2].content[1]) = 3

\* A converted message whose extracted text is empty: the empty string, or
\* parts none of which is a text part with a text
ExtractsNothing(msg) ==
    \/ msg.content.t = "string" /\ msg.content.v = <<>>
    \/ /\ msg.content.t = "array"
       /\ \A k \in DOMAIN msg.content.v :
             msg.content.v[k].type = "text" => msg.content.v[k].text.v = <<>>

\* C5: no output message has empty content: the output has one message for
\* each converted message that extracts some text, and none for the others.
C5_NoEmptyContent ==
    \A c \in Callers :
        HasReturned(c) =>
            /\ \A i \in DOMAIN maCalls[c].output :
                  Len(maCalls[c].output[i].content) > 0
            /\ maCalls[c].converterCalled =>
                  Len(maCalls[c].output) =
                      Cardinality({ k \in DOMAIN maCalls[c].modelMessages :
                                      ~ExtractsNothing(maCalls[c].modelMessages[k]) })

\* C5 witness: a converted message that extracts nothing stands between two
\* that extract a text, and the call returned two messages.
C5_Witness ==
    \E c \in Callers :
        /\ HasReturned(c)
        /\ maCalls[c].converterCalled
        /\ Len(maCalls[c].modelMessages) = 3
        /\ ~ExtractsNothing(maCalls[c].modelMessages[1])
        /\ ExtractsNothing(maCalls[c].modelMessages[2])
        /\ ~ExtractsNothing(maCalls[c].modelMessages[3])
        /\ Len(maCalls[c].output) = 2

\* C6: every output message has the role user, assistant or system.
C6_RolesInEnum ==
    \A c \in Callers :
        HasReturned(c) =>
            \A i \in DOMAIN maCalls[c].output :
                maCalls[c].output[i].role \in {"user", "assistant", "system"}

\* C6 witness: the conversion produced a message of role tool, and the call
\* returned a non-empty output.
C6_Witness ==
    \E c \in Callers :
        /\ HasReturned(c)
        /\ maCalls[c].converterCalled
        /\ \E k \in DOMAIN maCalls[c].modelMessages :
              maCalls[c].modelMessages[k].role = "tool"
        /\ Len(maCalls[c].output) > 0

RECURSIVE TextOfParts(_)
\* The texts of the text-typed parts of a content, concatenated in order
TextOfParts(parts) ==
    IF parts = <<>> THEN <<>>
    ELSE IF Head(parts).type = "text"
         THEN Head(parts).text.v \o TextOfParts(Tail(parts))
         ELSE TextOfParts(Tail(parts))

\* The content the claim gives a converted message
ClaimedContent(msg) ==
    IF msg.content.t = "string" THEN msg.content.v ELSE TextOfParts(msg.content.v)

\* C7: the content of each output message is the string content of its
\* converted message verbatim, or the concatenation in order of the texts of
\* its text-typed parts, the other parts discarded.
C7_ContentExtraction ==
    \A c \in Callers :
        HasReturned(c) /\ maCalls[c].converterCalled =>
            LET kept == SelectSeq(maCalls[c].modelMessages,
                                  LAMBDA msg : ClaimedContent(msg) # <<>>)
            IN /\ Len(maCalls[c].output) = Len(kept)
               /\ \A i \in DOMAIN kept :
                     /\ maCalls[c].output[i].content = ClaimedContent(kept[i])
                     /\ maCalls[c].output[i].role = kept[i].role

\* C7 witness: one converted message has a string content and another has
\* parts with a reasoning part and a text part, and the call returned.
C7_Witness ==
    \E c \in Callers :
        /\ HasReturned(c)
        /\ maCalls[c].converterCalled
        /\ \E k \in DOMAIN maCalls[c].modelMessages :
              /\ maCalls[c].modelMessages[k].content.t = "string"
              /\ maCalls[c].modelMessages[k].content.v # <<>>
        /\ \E k \in DOMAIN maCalls[c].modelMessages :
              LET content == maCalls[c].modelMessages[k].content
              IN /\ content.t = "array"
                 /\ \E a, b \in DOMAIN content.v :
                       content.v[a].type = "reasoning" /\ content.v[b].type = "text"

\* C8: when the value passed is no array, the call returns the empty list,
\* does not raise, and never calls the conversion.
C8_NonArrayInput ==
    ~IsArray(uiMessages) =>
        \A c \in Callers :
            /\ maCalls[c].pc \in {"idle", "returned"}
            /\ HasReturned(c) =>
                  /\ maCalls[c].output = <<>>
                  /\ ~maCalls[c].converterCalled

\* C8 witness: a call on null has returned.
C8_Witness ==
    /\ uiMessages = JsNull
    /\ \E c \in Callers : HasReturned(c)

----------------------------------------------------------------------------
(* The searchCV tool: createCVSearchTool *)

Queries == {"q1", "q2"}

\* embeddingService.embed(query): the embedding of each query text
Embed(query) == IF query = "q1" THEN "e1" ELSE "e2"

\* The inputs the model may send: any query, the empty one included, and any
\* maxResults or none
ToolInputs ==
    [query : {Str(q) : q \in Queries \cup {""}},
     maxResults : {Undefined, Num(0), Num(11)} \cup {Num(k) : k \in 1..MaxLimit}]

\* cvSearchInputSchema: query a string of at least one character, maxResults
\* absent or an integer from 1 to 10
InputSchemaOk(input) ==
    /\ IsString(input.query)
    /\ input.query.v # ""
    /\ \/ input.maxResults.t = "undefined"
       \/ IsNumber(input.maxResults)
          /\ input.maxResults.v >= 1
          /\ input.maxResults.v <= 10

\* maxResults = DEFAULT_AGENT_CONFIG.defaultSearchLimit
ToolLimit(input) ==
    IF input.maxResults.t = "undefined" THEN defaultSearchLimit
    ELSE input.maxResults.v

\* Math.round(similarity * 1000) / 1000, in units of 1/10000
Round3(sim) == ((sim + 5) \div 10) * 10

\* x ?? fallback
OrElse(x, fallback) == IF x.t \in {"null", "undefined"} THEN fallback ELSE x

\* One result as a document of the tool output
ToDocument(r) ==
    [nodeId |-> OrElse(r.metadata.node_id, Str("UNKNOWN")),
     content |-> r.content,
     category |-> OrElse(r.metadata.category, Str("general")),
     similarity |-> Num(Round3(r.similarity.v))]

\* results.map(...)
Documents(results) == [k \in DOMAIN results |-> ToDocument(results[k])]

\* (mutant) found is set without looking at the results
ToolOutputAlwaysFound(query, results) ==
    [query |-> query, found |-> TRUE, documents |-> Arr(Documents(results))]

\* The value execute returns for the results of the store
ToolOutput(query, results) ==
    IF Len(results) = 0
    THEN [query |-> query, found |-> FALSE, documents |-> Arr(<<>>)]
    ELSE [query |-> query, found |-> TRUE, documents |-> Arr(Documents(results))]

\* The calls execute makes on its two services, as it makes them
EmbedCall(query) == [service |-> "embeddingService.embed", arg |-> query]
SearchCall(embedding, limit, threshold) ==
    [service |-> "vectorStore.search", arg |-> embedding,
     limit |-> limit, threshold |-> threshold]

\* (mutant) execute is called without the check of the input
ToolInvokeNoSchema(input) ==
    /\ tool.pc = "idle"
    /\ IsString(input.query)
    /\ tool' = [pc |-> "embedding", input |-> input,
                calls |-> <<EmbedCall(input.query.v)>>]
    /\ UNCHANGED <<store, otherThanTool>>

\* (mutant) execute starts the store query together with the embedding call
ToolInvokeBoth(input) ==
    /\ tool.pc = "idle"
    /\ tool' = IF InputSchemaOk(input)
               THEN [pc |-> "embedding", input |-> input,
                     calls |-> <<EmbedCall(input.query.v),
                                 SearchCall("e1", ToolLimit(input),
                                            similarityThreshold)>>]
               ELSE [pc |-> "invalid-input", input |-> input, calls |-> <<>>]
    /\ UNCHANGED <<store, otherThanTool>>

\* The model calls the tool: the input is checked against the schema, and
\* execute starts by calling the embedding service
ToolInvoke(input) ==
    /\ tool.pc = "idle"
    /\ tool' = IF InputSchemaOk(input)
               THEN [pc |-> "embedding", input |-> input,
                     calls |-> <<EmbedCall(input.query.v)>>]
               ELSE [pc |-> "invalid-input", input |-> input, calls |-> <<>>]
    /\ UNCHANGED <<store, otherThanTool>>

\* embed resolves: execute calls vectorStore.search with the embedding
EmbedReturns ==
    /\ tool.pc = "embedding"
    /\ LET embedding == Embed(tool.input.query.v)
           limit == ToolLimit(tool.input)
       IN tool' = [pc |-> "searching", input |-> tool.input,
                   embedding |-> embedding,
                   limit |-> limit,
                   threshold |-> similarityThreshold,
                   calls |-> Append(tool.calls,
                                    SearchCall(embedding, limit,
                                               similarityThreshold))]
    /\ UNCHANGED <<store, otherThanTool>>

\* (mutant) execute catches the failure of embed and answers that nothing
\* was found
EmbedFailsEmptyResult ==
    /\ tool.pc = "embedding"
    /\ tool' = [pc |-> "returned", input |-> tool.input,
                embedding |-> "e1",
                limit |-> ToolLimit(tool.input),
                threshold |-> similarityThreshold,
                results |-> <<>>,
                output |-> ToolOutput(tool.input.query, <<>>),
                calls |-> tool.calls]
    /\ UNCHANGED <<store, otherThanTool>>

\* embed rejects: execute rejects with the error, the store is not queried
EmbedFails ==
    /\ tool.pc = "embedding"
    /\ tool' = [pc |-> "failed", input |-> tool.input, error |-> "embedding",
                calls |-> tool.calls]
    /\ UNCHANGED <<store, otherThanTool>>

\* vectorStore.search resolves (its query returning the rows in the order p):
\* execute returns the tool output
StoreReturns(p) ==
    /\ tool.pc = "searching"
    /\ LET results == FilterResults(SqlQuery(store, tool.embedding, tool.limit, p),
                                    tool.threshold)
       IN tool' = [pc |-> "returned", input |-> tool.input,
                   embedding |-> tool.embedding,
                   limit |-> tool.limit,
                   threshold |-> tool.threshold,
                   results |-> results,
                   output |-> ToolOutput(tool.input.query, results),
                   calls |-> tool.calls]
    /\ UNCHANGED <<store, otherThanTool>>

\* vectorStore.search rejects: execute rejects with the error
StoreFails ==
    /\ tool.pc = "searching"
    /\ tool' = [pc |-> "failed", input |-> tool.input, error |-> "store",
                calls |-> tool.calls]
    /\ UNCHANGED <<store, otherThanTool>>

Invoke == \E input \in ToolInputs : ToolInvoke(input)

StoreAnswers ==
    /\ tool.pc = "searching"
    /\ \E p \in Orderings(store, tool.embedding) : StoreReturns(p)

----------------------------------------------------------------------------
(* Specification of the search tool: one invocation against any store, on *)
(* an agent built with any of the configurations                          *)

InitTool ==
    /\ store \in Stores
    /\ tool = ToolIdle
    /\ vsCall = NoCall
    /\ uiMessages = Undefined
    /\ maCalls = NoAdapterCalls
    /\ \E configOverrides \in ConfigOverrides :
          config = MergeConfig(DEFAULT_AGENT_CONFIG, configOverrides)
    /\ requests = NoRequests
    /\ http = HttpIdle
    /\ hist = NoHistory
    /\ term = NotMounted

NextTool == Invoke \/ EmbedReturns \/ EmbedFails \/ StoreAnswers \/ StoreFails

SpecTool == InitTool /\ [][NextTool]_vars

----------------------------------------------------------------------------
(* Claims about the search tool, checked under SpecTool *)

\* C10: every output of the tool has a list as documents and found true
\* exactly when the list is non-empty; with no result from the store it is
\* {query, found: false, documents: []}, otherwise it has one document per
\* result in the order of the store; query is the query of the input.
C10_FoundIffDocuments ==
    tool.pc = "returned" =>
        LET out == tool.output
            docs == out.documents
        IN /\ IsArray(docs)
           /\ out.found = (Len(docs.v) > 0)
           /\ out.query = tool.input.query
           /\ Len(docs.v) = Len(tool.results)
           /\ Len(tool.results) = 0 =>
                 out = [query |-> tool.input.query, found |-> FALSE,
                        documents |-> Arr(<<>>)]
           /\ \A i \in DOMAIN docs.v :
                 /\ docs.v[i].content = tool.results[i].content
                 /\ docs.v[i].similarity.v - tool.results[i].similarity.v \in -5..5
                 /\ docs.v[i].nodeId \in
                       {tool.results[i].metadata.node_id, Str("UNKNOWN")}

\* C10 witness: the store holds rows but none at or above the threshold for
\* the query, and the tool returned found false with no documents.
C10_Witness ==
    /\ tool.pc = "returned"
    /\ Len(store) > 0
    /\ \E i \in DOMAIN store : SchemaOk(SelectRow(store, i, tool.embedding))
    /\ tool.output.found = FALSE
    /\ tool.output.documents = Arr(<<>>)

\* The limit and the threshold the agent's configuration asks for
ConfiguredLimit(input) ==
    IF input.maxResults.t = "undefined" THEN config.defaultSearchLimit
    ELSE input.maxResults.v

\* C11: every execution of the tool queries the store with the limit
\* maxResults when the input has one and otherwise the defaultSearchLimit of
\* the agent's configuration, and with the similarityThreshold of the
\* agent's configuration, which is the defaults overridden by the config
\* passed to createCVAgent.
C11_ConfiguredLimitAndThreshold ==
    tool.pc \in {"searching", "returned"} =>
        /\ tool.limit = ConfiguredLimit(tool.input)
        /\ tool.threshold = config.similarityThreshold

\* The calls of the invocation on the named service
CallsOn(service) == SelectSeq(tool.calls, LAMBDA c : c.service = service)

\* C12: an invocation makes one embedding call and then one store query, in
\* that order: no store query is made while the embedding call is in flight
\* or after it failed, never more than one call of each kind is made, and
\* the store is queried with the vector the embedding call returned.  An
\* invocation that returned made exactly one call of each.
C12_EmbedThenSearch ==
    /\ tool.pc = "embedding" => tool.calls = <<EmbedCall(tool.input.query.v)>>
    /\ tool.pc = "failed" /\ tool.error = "embedding" =>
           tool.calls = <<EmbedCall(tool.input.query.v)>>
    /\ \/ tool.pc \in {"searching", "returned"}
       \/ tool.pc = "failed" /\ tool.error = "store"
       => /\ Len(tool.calls) = 2
          /\ tool.calls[1] = EmbedCall(tool.input.query.v)
          /\ tool.calls[2].service = "vectorStore.search"
          /\ tool.calls[2].arg = Embed(tool.input.query.v)
    /\ tool.pc = "returned" =>
          /\ Len(CallsOn("embeddingService.embed")) = 1
          /\ Len(CallsOn("vectorStore.search")) = 1
          /\ tool.calls[2].arg = tool.embedding

\* C12 witness: an invocation returned after one embedding call for its
\* query and one store query with the vector of that query, here the second
\* vector, with results.
C12_Witness ==
    /\ tool.pc = "returned"
    /\ tool.calls = <<EmbedCall("q2"),
                      SearchCall("e2", tool.limit, tool.threshold)>>
    /\ Len(tool.results) > 0

----------------------------------------------------------------------------
(* The agent: createCVAgent and the stream() calls on it.                  *)
(*                                                                         *)
(* stream() makes an AbortController and a timer that aborts it after      *)
(* requestTimeoutMs, and starts streamText with the searchCV tool, the     *)
(* stop condition stepCountIs(maxToolSteps), the controller's signal and   *)
(* an onFinish that clears the timer.  streamText runs steps: a step is    *)
(* one call of the language model, which streams text and ends either      *)
(* with a tool call or with the end of the answer.  After a tool call the  *)
(* tool is executed and, unless the stop condition holds or the signal is  *)
(* aborted, the next step starts.  The model is free in what it does and   *)
(* in how long it takes; the timer of a request may fire at any moment     *)
(* while it is pending.                                                    *)
(***************************************************************************)

\* States in which the stream of a request has ended
Ended == {"done", "error", "aborted"}

\* clearTimeout(timeoutId)
ClearTimeout(timer) == IF timer = "pending" THEN "cleared" ELSE timer

\* (mutant) stream() starts streamText without the timer
StreamNoTimer(r) ==
    /\ requests[r].pc = "none"
    /\ requests' = [requests EXCEPT ![r] =
           [pc |-> "model", steps |-> 1, toolCalls |-> 0, toolResults |-> 0,
            chunks |-> <<>>, timer |-> "cleared",
            timeoutMs |-> config.requestTimeoutMs,
            aborted |-> FALSE, finishReason |-> "none", retries |-> 0]]
    /\ UNCHANGED <<config, otherThanAgent>>

\* The request stream() sets up on an agent of configuration cfg: a new
\* AbortController, setTimeout(abort, requestTimeoutMs), and streamText in
\* its first step
NewRequest(cfg) ==
    [pc |-> "model", steps |-> 1, toolCalls |-> 0, toolResults |-> 0,
     chunks |-> <<>>, timer |-> "pending",
     timeoutMs |-> cfg.requestTimeoutMs,
     aborted |-> FALSE, finishReason |-> "none", retries |-> 0]

\* stream() is called on the agent
Stream(r) ==
    /\ requests[r].pc = "none"
    /\ requests' = [requests EXCEPT ![r] = NewRequest(config)]
    /\ UNCHANGED <<config, otherThanAgent>>

\* The model streams a text chunk, which goes to the client; the chunk is
\* tagged with the step that produced it
ModelEmitsText(r) ==
    /\ requests[r].pc = "model"
    /\ Len(requests[r].chunks) < MaxChunks
    /\ requests' = [requests EXCEPT ![r].chunks = Append(@, requests[r].steps)]
    /\ UNCHANGED <<config, otherThanAgent>>

\* (mutant) the tool calls are counted in a counter of the agent
ModelCallsToolShared(r) ==
    /\ requests[r].pc = "model"
    /\ requests' = [q \in Requests |->
           IF q = r
           THEN [requests[q] EXCEPT !.pc = "tool-embed", !.toolCalls = @ + 1]
           ELSE IF requests[q].pc = "none" THEN requests[q]
           ELSE [requests[q] EXCEPT !.toolCalls = @ + 1]]
    /\ UNCHANGED <<config, otherThanAgent>>

\* The step ends with a call of searchCV (toolChoice auto): execute starts
\* with the embedding call
ModelCallsTool(r) ==
    /\ requests[r].pc = "model"
    /\ requests' = [requests EXCEPT ![r].pc = "tool-embed",
                                    ![r].toolCalls = @ + 1]
    /\ UNCHANGED <<config, otherThanAgent>>

\* (mutant) onFinish does not clear the timer
ModelFinishesNoClear(r) ==
    /\ requests[r].pc = "model"
    /\ requests' = [requests EXCEPT ![r].pc = "done",
                                    ![r].finishReason = "stop"]
    /\ UNCHANGED <<config, otherThanAgent>>

\* The step ends without a tool call: the answer is complete, the stream
\* finishes and onFinish clears the timer
ModelFinishes(r) ==
    /\ requests[r].pc = "model"
    /\ requests' = [requests EXCEPT ![r].pc = "done",
                                    ![r].finishReason = "stop",
                                    ![r].timer = ClearTimeout(@)]
    /\ UNCHANGED <<config, otherThanAgent>>

\* streamText is called without maxRetries, which leaves it at 2
maxRetries == 2

\* The call of the model fails before it streamed anything, with an error
\* that can be retried: streamText issues the call again, maxRetries times
\* at most for a step
ModelRetries(r) ==
    /\ requests[r].pc = "model"
    /\ requests[r].retries < maxRetries
    /\ \A i \in DOMAIN requests[r].chunks :
          requests[r].chunks[i] # requests[r].steps
    /\ requests' = [requests EXCEPT ![r].retries = @ + 1]
    /\ UNCHANGED <<config, otherThanAgent>>

\* The provider fails for good: the stream ends with the error.  onFinish
\* is not called for a stream that recorded no step; after a recorded step
\* it may be
ModelFails(r) ==
    /\ requests[r].pc = "model"
    /\ \E onFinishCalled \in IF requests[r].steps = 1 THEN {FALSE} ELSE BOOLEAN :
          requests' = [requests EXCEPT
              ![r].pc = "error",
              ![r].finishReason = "error",
              ![r].timer = IF onFinishCalled THEN ClearTimeout(@) ELSE @]
    /\ UNCHANGED <<config, otherThanAgent>>

\* What follows the result of a tool call: an aborted signal ends the
\* stream, the stop condition stepCountIs(maxToolSteps) finishes it (and
\* onFinish clears the timer), otherwise the next step starts
AfterToolResult(q) ==
    IF q.aborted THEN [q EXCEPT !.pc = "aborted", !.finishReason = "abort"]
    ELSE IF q.steps >= config.maxToolSteps
    THEN [q EXCEPT !.pc = "done", !.finishReason = "tool-calls",
                   !.timer = ClearTimeout(@)]
    ELSE [q EXCEPT !.pc = "model", !.steps = @ + 1, !.retries = 0]

\* (mutant) the next step does not wait for the result of the tool call
ExecuteEmbedReturnsNoWait(r) ==
    /\ requests[r].pc = "tool-embed"
    /\ requests' = [requests EXCEPT ![r].pc = "model", ![r].steps = @ + 1]
    /\ UNCHANGED <<config, otherThanAgent>>

\* execute: the embedding call returns and the store is queried
ExecuteEmbedReturns(r) ==
    /\ requests[r].pc = "tool-embed"
    /\ requests' = [requests EXCEPT ![r].pc = "tool-search"]
    /\ UNCHANGED <<config, otherThanAgent>>

\* execute: the embedding call fails; the error is the result of the call
ExecuteEmbedFails(r) ==
    /\ requests[r].pc = "tool-embed"
    /\ requests' = [requests EXCEPT ![r] =
           AfterToolResult([requests[r] EXCEPT !.toolResults = @ + 1])]
    /\ UNCHANGED <<config, otherThanAgent>>

\* execute: the store query returns or fails, which gives the result of the
\* tool call: its output or its error
ExecuteSearchSettles(r) ==
    /\ requests[r].pc = "tool-search"
    /\ requests' = [requests EXCEPT ![r] =
           AfterToolResult([requests[r] EXCEPT !.toolResults = @ + 1])]
    /\ UNCHANGED <<config, otherThanAgent>>

\* (mutant) the signal of the controller is not passed to streamText
TimerFiresNoSignal(r) ==
    /\ requests[r].pc # "none"
    /\ requests[r].timer = "pending"
    /\ requests' = [requests EXCEPT ![r].timer = "fired", ![r].aborted = TRUE]
    /\ UNCHANGED <<config, otherThanAgent>>

\* (mutant) one AbortController made by createCVAgent serves every request
TimerFiresShared(r) ==
    /\ requests[r].pc # "none"
    /\ requests[r].timer = "pending"
    /\ requests' = [q \in Requests |->
           IF requests[q].pc = "none" THEN requests[q]
           ELSE [requests[q] EXCEPT
                    !.timer = IF q = r THEN "fired" ELSE @,
                    !.aborted = TRUE,
                    !.pc = IF @ = "model" THEN "aborted" ELSE @,
                    !.finishReason = IF requests[q].pc = "model"
                                     THEN "abort" ELSE @]]
    /\ UNCHANGED <<config, otherThanAgent>>

\* The timer fires: abortController.abort().  A call of the model in flight
\* is cancelled and the stream ends; a tool execution in flight, which does
\* not look at the signal, goes on to its result
TimerFires(r) ==
    /\ requests[r].pc # "none"
    /\ requests[r].timer = "pending"
    /\ requests' = [requests EXCEPT
           ![r].timer = "fired",
           ![r].aborted = TRUE,
           ![r].pc = IF @ = "model" THEN "aborted" ELSE @,
           ![r].finishReason = IF requests[r].pc = "model" THEN "abort" ELSE @]
    /\ UNCHANGED <<config, otherThanAgent>>

StreamCalled == \E r \in Requests : Stream(r)
EmitsText == \E r \in Requests : ModelEmitsText(r)
CallsTool == \E r \in Requests : ModelCallsTool(r)
Finishes == \E r \in Requests : ModelFinishes(r)
Retries == \E r \in Requests : ModelRetries(r)
Fails == \E r \in Requests : ModelFails(r)
EmbedDone == \E r \in Requests : ExecuteEmbedReturns(r)
EmbedFailed == \E r \in Requests : ExecuteEmbedFails(r)
SearchSettled == \E r \in Requests : ExecuteSearchSettles(r)
Timeout == \E r \in Requests : TimerFires(r)

----------------------------------------------------------------------------
(* Specification of the agent: two stream() calls on one agent, built with *)
(* a configuration that overrides maxToolSteps                             *)

InitAgent ==
    /\ \E configOverrides \in StepOverrides :
          config = MergeConfig(DEFAULT_AGENT_CONFIG, configOverrides)
    /\ requests = NoRequests
    /\ store = <<>>
    /\ vsCall = NoCall
    /\ tool = ToolIdle
    /\ uiMessages = Undefined
    /\ maCalls = NoAdapterCalls
    /\ http = HttpIdle
    /\ hist = NoHistory
    /\ term = NotMounted

NextAgent ==
    \/ StreamCalled
    \/ EmitsText
    \/ CallsTool
    \/ Finishes
    \/ Retries
    \/ Fails
    \/ EmbedDone
    \/ EmbedFailed
    \/ SearchSettled
    \/ Timeout

SpecAgent == InitAgent /\ [][NextAgent]_vars

\* The timer of a request fires once its delay has elapsed, and the calls
\* of the tool on the embedding service and on the store settle; nothing is
\* assumed of the model, which may never answer
FairAgent ==
    \A r \in Requests :
        /\ WF_vars(TimerFires(r))
        /\ WF_vars(ExecuteEmbedReturns(r) \/ ExecuteEmbedFails(r))
        /\ WF_vars(ExecuteSearchSettles(r))

SpecAgentFair == SpecAgent /\ FairAgent

----------------------------------------------------------------------------
(* The chat request handler: POST of pages/api/chat, in its two versions.  *)
(* The hardened version checks the Content-Type and the size of the        *)
(* request before the configuration; the plain version starts with the     *)
(* configuration and reads the body with request.json().                   *)
(***************************************************************************)

MAX_REQUEST_SIZE_BYTES == 51200

Versions == {"hardened", "plain"}

\* A message of the request body: the entry of the kind with the id
BodyMessage(kind, p, id) ==
    LET e == Entry(kind, p)
    IN IF e.t = "object"
       THEN [f \in DOMAIN e \cup {"id"} |-> IF f = "id" THEN id ELSE e[f]]
       ELSE e

BodyKinds ==
    { <<>>, <<"user">>, <<"userEmpty">>, <<"badRole">>, <<"noParts">>,
      <<"string">>, <<"assistantToolOnly">>, <<"system", "user">>,
      <<"userEmpty", "assistantToolOnly">>, <<"user", "badRole">> }

\* What JSON.parse gives for the body texts tried: no JSON, null, an object
\* without messages, and objects with a list of messages
ParsedBodies ==
    { [json |-> FALSE], [json |-> TRUE, value |-> JsNull],
      [json |-> TRUE, value |-> [t |-> "object", messages |-> Undefined]] }
    \cup
    { [json |-> TRUE,
       value |-> [t |-> "object",
                  messages |-> Arr([p \in DOMAIN kinds |->
                                       BodyMessage(kinds[p], p, id)])]] :
        kinds \in BodyKinds, id \in {Str("m1"), Undefined} }

\* The environments: DATABASE_URL and AI_GATEWAY_API_KEY, set or not
Environments ==
    { [databaseUrl |-> Str("postgres"), apiKey |-> Str("key")],
      [databaseUrl |-> Undefined, apiKey |-> Str("key")],
      [databaseUrl |-> Str("postgres"), apiKey |-> Undefined] }

\* The requests tried.  The plain version reads neither the headers nor the
\* length of the body, which are left at one value for it
HttpRequests ==
    { [version |-> "hardened", contentType |-> ct, contentLength |-> cl,
       bodyLength |-> bl, body |-> b] :
        ct \in {Str("application/json"), Str("text/plain"), JsNull},
        cl \in {JsNull, Num(100), Num(60000)},
        bl \in {100, 60000},
        b \in ParsedBodies }
    \cup
    { [version |-> "plain", contentType |-> Str("application/json"),
       contentLength |-> Num(100), bodyLength |-> 100, body |-> b] :
        b \in ParsedBodies }

\* uiMessageSchema: id a string, role in the enum, parts a list of objects
\* with a type
UiMessageSchemaOk(m) ==
    /\ m.t = "object"
    /\ IsString(m.id)
    /\ IsString(m.role)
    /\ m.role.v \in ValidRoles
    /\ IsArray(m.parts)
    /\ \A k \in DOMAIN m.parts.v :
          m.parts.v[k].t = "object" /\ "type" \in DOMAIN m.parts.v[k]

\* chatRequestSchema: an object with a list of at least one message
ChatRequestSchemaOk(value) ==
    /\ value.t = "object"
    /\ IsArray(value.messages)
    /\ Len(value.messages.v) >= 1
    /\ \A k \in DOMAIN value.messages.v :
          UiMessageSchemaOk(value.messages.v[k])

\* adapter.toModelMessages as one call: its result, or that it threw
ToModelMessages(messages) ==
    IF ~IsArray(messages) THEN [threw |-> FALSE, output |-> <<>>]
    ELSE LET validMessages == ValidMessages(messages.v)
         IN IF Len(validMessages) = 0 THEN [threw |-> FALSE, output |-> <<>>]
            ELSE IF ConversionThrows(validMessages)
            THEN [threw |-> TRUE, output |-> <<>>]
            ELSE [threw |-> FALSE,
                  output |-> MapMessages(convertToModelMessages(validMessages))]

\* The error responses
unsupportedMediaTypeError == [status |-> 415, error |-> "Unsupported Media Type"]
payloadTooLargeError == [status |-> 413, error |-> "Request payload too large"]
configurationError == [status |-> 500, error |-> "Missing required configuration"]
validationError == [status |-> 400, error |-> "Invalid request format"]
internalError == [status |-> 500, error |-> "Internal server error"]

Respond(req, env, response) ==
    [pc |-> "responded", request |-> req, env |-> env, response |-> response]

ContentTypeOk(req) ==
    req.contentType # JsNull /\ req.contentType.v = "application/json"

ConfigurationOk(env) == IsString(env.databaseUrl) /\ IsString(env.apiKey)


\* (mutant) the configuration is not checked before the body is read
PostNoConfigCheck(req, env) ==
    /\ http.pc = "idle"
    /\ http' =
          IF req.version = "hardened" /\ ~ContentTypeOk(req)
          THEN Respond(req, env, unsupportedMediaTypeError)
          ELSE IF /\ req.version = "hardened"
                  /\ req.contentLength # JsNull
                  /\ req.contentLength.v > MAX_REQUEST_SIZE_BYTES
          THEN Respond(req, env, payloadTooLargeError)
          ELSE [pc |-> "reading", request |-> req, env |-> env]
    /\ UNCHANGED otherThanHttp

\* POST up to its first await: the checks of the headers (hardened version)
\* and of the configuration
Post(req, env) ==
    /\ http.pc = "idle"
    /\ http' =
          IF req.version = "hardened" /\ ~ContentTypeOk(req)
          THEN Respond(req, env, unsupportedMediaTypeError)
          ELSE IF /\ req.version = "hardened"
                  /\ req.contentLength # JsNull
                  /\ req.contentLength.v > MAX_REQUEST_SIZE_BYTES
          THEN Respond(req, env, payloadTooLargeError)
          ELSE IF ~ConfigurationOk(env)
          THEN Respond(req, env, configurationError)
          ELSE [pc |-> "reading", request |-> req, env |-> env]
    /\ UNCHANGED otherThanHttp

\* (mutant) the body is not checked against chatRequestSchema
BodyReadNoSchema ==
    /\ http.pc = "reading"
    /\ LET req == http.request
           env == http.env
       IN http' =
             IF req.version = "hardened" /\ req.bodyLength > MAX_REQUEST_SIZE_BYTES
             THEN Respond(req, env, payloadTooLargeError)
             ELSE IF ~req.body.json
             THEN Respond(req, env, IF req.version = "hardened"
                                    THEN validationError ELSE internalError)
             ELSE IF req.body.value.t # "object"
             THEN Respond(req, env, validationError)
             ELSE [pc |-> "adapting", request |-> req, env |-> env,
                   messages |-> req.body.value.messages]
    /\ UNCHANGED otherThanHttp

\* The body has been read: its size (hardened version), JSON.parse, where
\* the plain version throws into its catch, and chatRequestSchema.safeParse;
\* then toModelMessages is called
BodyRead ==
    /\ http.pc = "reading"
    /\ LET req == http.request
           env == http.env
       IN http' =
             IF req.version = "hardened" /\ req.bodyLength > MAX_REQUEST_SIZE_BYTES
             THEN Respond(req, env, payloadTooLargeError)
             ELSE IF ~req.body.json
             THEN Respond(req, env, IF req.version = "hardened"
                                    THEN validationError ELSE internalError)
             ELSE IF ~ChatRequestSchemaOk(req.body.value)
             THEN Respond(req, env, validationError)
             ELSE [pc |-> "adapting", request |-> req, env |-> env,
                   messages |-> req.body.value.messages]
    /\ UNCHANGED otherThanHttp

\* The request the handler streams
HandlerRequest == "r1"

\* (mutant) the agent is created and stream() called whatever the adapter
\* returned
AdaptedNoEmptyCheck ==
    /\ http.pc = "adapting"
    /\ LET req == http.request
           env == http.env
           adapted == ToModelMessages(http.messages)
       IN IF adapted.threw
          THEN /\ http' = Respond(req, env, internalError)
               /\ UNCHANGED <<config, requests>>
          ELSE /\ http' = [pc |-> "streaming", request |-> req, env |-> env,
                           modelMessages |-> adapted.output,
                           response |-> [status |-> 200, error |-> "none"]]
               /\ config' = MergeConfig(DEFAULT_AGENT_CONFIG, <<>>)
               /\ requests' = [requests EXCEPT ![HandlerRequest] =
                                  NewRequest(config')]
    /\ UNCHANGED <<store, vsCall, tool, uiMessages, maCalls, uiVars>>

\* toModelMessages has settled: no message left gives a validation error;
\* otherwise the agent is created with the default configuration, stream()
\* is called and the streaming response is returned
Adapted ==
    /\ http.pc = "adapting"
    /\ LET req == http.request
           env == http.env
           adapted == ToModelMessages(http.messages)
       IN IF adapted.threw
          THEN /\ http' = Respond(req, env, internalError)
               /\ UNCHANGED <<config, requests>>
          ELSE IF Len(adapted.output) = 0
          THEN /\ http' = Respond(req, env, validationError)
               /\ UNCHANGED <<config, requests>>
          ELSE /\ http' = [pc |-> "streaming", request |-> req, env |-> env,
                           modelMessages |-> adapted.output,
                           response |-> [status |-> 200, error |-> "none"]]
               /\ config' = MergeConfig(DEFAULT_AGENT_CONFIG, <<>>)
               /\ requests' = [requests EXCEPT ![HandlerRequest] =
                                  NewRequest(config')]
    /\ UNCHANGED <<store, vsCall, tool, uiMessages, maCalls, uiVars>>

Received == \E req \in HttpRequests, env \in Environments : Post(req, env)

----------------------------------------------------------------------------
(* Specification of the handler: one chat request, from its arrival to the *)
(* end of the stream of the agent it creates                               *)

InitHttp ==
    /\ http = HttpIdle
    /\ hist = NoHistory
    /\ term = NotMounted
    /\ config = Undefined
    /\ requests = NoRequests
    /\ store = <<>>
    /\ vsCall = NoCall
    /\ tool = ToolIdle
    /\ uiMessages = Undefined
    /\ maCalls = NoAdapterCalls

NextHttp ==
    \/ Received
    \/ BodyRead
    \/ Adapted
    \/ EmitsText
    \/ CallsTool
    \/ Finishes
    \/ Retries
    \/ Fails
    \/ EmbedDone
    \/ EmbedFailed
    \/ SearchSettled
    \/ Timeout

SpecHttp == InitHttp /\ [][NextHttp]_vars

----------------------------------------------------------------------------
(* Claims about the agent, checked under SpecAgent and SpecAgentFair *)

Started(r) == requests[r].pc # "none"

C13_FinalAnswerAtBound ==
    \A r \in Requests :
        Started(r) =>
            /\ requests[r].steps <= config.maxToolSteps
            /\ requests[r].toolCalls <= config.maxToolSteps
            /\ requests[r].pc = "done" => requests[r].finishReason = "stop"

\* IsPrefix(s, t): s is the beginning of t
IsPrefix(s, t) == Len(s) <= Len(t) /\ SubSeq(t, 1, Len(s)) = s

\* C15: once the timer of a request has fired, no text chunk is added to
\* the stream of the request, and in every step the chunks emitted so far
\* stay as they were: they are the beginning of the chunks after the step.
C15_NoChunkAfterTimeout ==
    [][\A r \in Requests :
          Started(r) =>
              /\ IsPrefix(requests[r].chunks, requests'[r].chunks)
              /\ requests[r].timer = "fired" =>
                    requests'[r].chunks = requests[r].chunks]_vars

\* C15 witness: the timer fired after the model had streamed a chunk, and
\* the request was aborted with that chunk as its output.
C15_Witness ==
    \E r \in Requests :
        /\ Started(r)
        /\ requests[r].timer = "fired"
        /\ requests[r].pc = "aborted"
        /\ Len(requests[r].chunks) = 1

\* C16: a stream() call that completed normally has its timer cleared and
\* its signal not aborted, in the state it completes in and in every later
\* state: no cancellation is pending for it and none fires.
C16_TimerClearedOnFinish ==
    \A r \in Requests :
        requests[r].pc = "done" =>
            /\ requests[r].timer = "cleared"
            /\ requests[r].aborted = FALSE

\* C16 witness: a request completed normally with its answer while the
\* other request, started as well, still has its timer pending.
C16_Witness ==
    \E r, q \in Requests :
        /\ r # q
        /\ requests[r].pc = "done"
        /\ requests[r].finishReason = "stop"
        /\ Len(requests[r].chunks) > 0
        /\ Started(q)
        /\ requests[q].timer = "pending"

\* C17: each request has its own signal and timer: the signal of a request
\* is aborted only by its own timer, and the step in which the timer of a
\* request fires leaves every other request as it was.
C17_TimeoutCancelsOnlyItsRequest ==
    /\ [](\A r \in Requests :
             Started(r) /\ requests[r].aborted => requests[r].timer = "fired")
    /\ [][\A r \in Requests :
             Started(r) /\ requests[r].timer = "pending"
                        /\ requests'[r].timer = "fired" =>
                 \A q \in Requests \ {r} : requests'[q] = requests[q]]_vars

\* C17 witness: one request was aborted by its timer, and the other is in
\* flight, the model streaming its answer, with its own timer pending and
\* its signal not aborted.
C17_Witness ==
    \E r, q \in Requests :
        /\ r # q
        /\ requests[r].pc = "aborted"
        /\ requests[r].timer = "fired"
        /\ requests[q].pc = "model"
        /\ requests[q].timer = "pending"
        /\ requests[q].aborted = FALSE
        /\ Len(requests[q].chunks) > 0

\* C18: the requests share no state that changes: the configuration of the
\* agent and the store stay as createCVAgent found them, and every step
\* changes the state of one request at most.
C18_NoSharedMutableState ==
    [][/\ config' = config
       /\ store' = store
       /\ Cardinality({r \in Requests : requests'[r] # requests[r]}) <= 1]_vars

\* C18 witness: under an overridden configuration both requests made a
\* tool call and ended, one normally and one by its timer.
C18_Witness ==
    /\ config # DEFAULT_AGENT_CONFIG
    /\ \E r, q \in Requests :
          /\ requests[r].pc = "done"
          /\ requests[r].toolResults > 0
          /\ requests[q].pc = "aborted"
          /\ requests[q].toolResults > 0

\* C19: every tool call has its result before the model takes its next
\* step (a step of the model is in flight only when each tool call made so
\* far has its result, and one call at most is waiting for its result);
\* the step that ends with the answer comes after all tool round-trips;
\* and done is terminal: a request that is done never changes again.
C19_StepOrder ==
    /\ [](\A r \in Requests :
             Started(r) =>
                 /\ requests[r].toolCalls - requests[r].toolResults \in {0, 1}
                 /\ requests[r].pc \in {"tool-embed", "tool-search"} <=>
                       requests[r].toolCalls = requests[r].toolResults + 1
                 /\ requests[r].pc = "model" =>
                       requests[r].steps = requests[r].toolResults + 1
                 /\ requests[r].finishReason = "stop" =>
                       /\ requests[r].pc = "done"
                       /\ requests[r].steps = requests[r].toolCalls + 1
                 /\ \A i \in DOMAIN requests[r].chunks :
                       requests[r].chunks[i] <= requests[r].steps)
    /\ [][\A r \in Requests :
             requests[r].pc = "done" => requests'[r] = requests[r]]_vars

\* C19 witness: a request went through a tool round-trip, then streamed its
\* answer in its second step and is done.
C19_Witness ==
    \E r \in Requests :
        /\ requests[r].pc = "done"
        /\ requests[r].toolCalls = 1
        /\ requests[r].toolResults = 1
        /\ requests[r].finishReason = "stop"
        /\ requests[r].chunks = <<2, 2>>

----------------------------------------------------------------------------
(* Claims about the chat request handler, checked under SpecHttp *)

\* The calls made for the request so far: of the language model (one per
\* step) and of the embedding service and the store (with each tool call)
CallsMade ==
    IF requests[HandlerRequest].pc = "none" THEN 0
    ELSE requests[HandlerRequest].steps + requests[HandlerRequest].toolCalls

\* C20: a request answered with the configuration error or the validation
\* error had no agent created, no stream() call and no call of the model,
\* the embedding service or the store made for it; and when the agent
\* exists or stream() was called, the configuration is complete, the body
\* satisfies the schema and the adaptation gave at least one message.
C20_FailFast ==
    /\ http.pc = "responded"
          /\ http.response \in {configurationError, validationError}
       => /\ config = Undefined
          /\ requests = NoRequests
          /\ CallsMade = 0
    /\ config # Undefined \/ requests # NoRequests \/ CallsMade > 0
       => /\ http.pc = "streaming"
          /\ ConfigurationOk(http.env)
          /\ http.request.body.json
          /\ ChatRequestSchemaOk(http.request.body.value)
          /\ ~ToModelMessages(http.request.body.value.messages).threw
          /\ Len(ToModelMessages(http.request.body.value.messages).output) > 0

\* C20 witness: a request with a complete configuration and a body that
\* satisfies the schema was rejected with the validation error because no
\* message was left after adaptation, and nothing was called for it.
C20_Witness ==
    /\ http.pc = "responded"
    /\ http.response = validationError
    /\ ConfigurationOk(http.env)
    /\ http.request.body.json
    /\ ChatRequestSchemaOk(http.request.body.value)
    /\ CallsMade = 0

\* The reading of C21: with the connection string or the credential
\* absent, every request is answered with the configuration error.
C21_Original ==
    http.pc # "idle" /\ ~ConfigurationOk(http.env) =>
        /\ http.pc = "responded"
        /\ http.response = configurationError

\* The header checks of the hardened version, made before the configuration
\* is looked at
HeadersRejected(req) ==
    /\ req.version = "hardened"
    /\ \/ ~ContentTypeOk(req)
       \/ req.contentLength # JsNull
          /\ req.contentLength.v > MAX_REQUEST_SIZE_BYTES

\* C21: with the connection string or the credential absent, the request is
\* answered at once, its body unread: with the configuration error, except
\* that the hardened version answers a request without the JSON Content-Type
\* with 415 and one whose Content-Length exceeds the limit with 413; the
\* answer is never the validation error, and no agent is created.
C21_ConfigurationError ==
    http.pc # "idle" /\ ~ConfigurationOk(http.env) =>
        /\ http.pc = "responded"
        /\ http.response # validationError
        /\ http.response =
              IF HeadersRejected(http.request)
              THEN IF ~ContentTypeOk(http.request)
                   THEN unsupportedMediaTypeError
                   ELSE payloadTooLargeError
              ELSE configurationError
        /\ config = Undefined
        /\ requests = NoRequests

\* C21 witness: the credential is absent and the request, with the JSON
\* Content-Type, has a body that is no JSON: the hardened version answered
\* with the configuration error.
C21_Witness ==
    /\ http.pc = "responded"
    /\ http.request.version = "hardened"
    /\ http.env.apiKey = Undefined
    /\ ~http.request.body.json
    /\ http.response = configurationError

\* C22: when the adapter returns no message for a body that satisfied the
\* schema, the handler answers with the validation error (400), and neither
\* creates the agent nor calls stream().
C22_EmptyAfterAdaptation ==
    [][/\ http.pc = "adapting"
       /\ ~ToModelMessages(http.messages).threw
       /\ Len(ToModelMessages(http.messages).output) = 0
       => /\ http'.pc = "responded"
          /\ http'.response = validationError
          /\ http'.response.status = 400
          /\ config' = Undefined
          /\ requests' = NoRequests]_vars

\* C22 witness: a body of two messages, both dropped by the adapter (one
\* with an empty text, one with a tool part only), was answered with the
\* validation error and no stream() call.
C22_Witness ==
    /\ http.pc = "responded"
    /\ http.response = validationError
    /\ http.request.body.json
    /\ ChatRequestSchemaOk(http.request.body.value)
    /\ Len(http.request.body.value.messages.v) = 2
    /\ requests = NoRequests

----------------------------------------------------------------------------
(* Further claims about the agent, checked under SpecAgent *)

\* The reading of C25: an error of the provider ends the stream with the
\* error, and no failed call of the model is issued again.
C25_NoRetry ==
    \A r \in Requests :
        Started(r) =>
            /\ requests[r].retries = 0
            /\ requests[r].finishReason = "error" => requests[r].pc = "error"

\* The reading of C27: a request that has ended, however it ended, has no
\* timer pending.
C27_NoPendingTimerAtEnd ==
    \A r \in Requests :
        requests[r].pc \in Ended => requests[r].timer # "pending"

----------------------------------------------------------------------------
(* Further claims about the search tool, checked under SpecTool *)

\* C23: an invocation whose embedding call or store query failed ends as
\* failed with that error and stays so: it has no output and no results;
\* after a failed embedding call no vector stands in for the missing one and
\* the store is not queried.  An invocation that returned an output made
\* both calls, the store query with the vector of its query.
C23_FailurePropagates ==
    /\ [](tool.pc = "failed" =>
             /\ tool.error \in {"embedding", "store"}
             /\ DOMAIN tool \cap {"output", "results", "embedding"} = {}
             /\ tool.error = "embedding" =>
                   CallsOn("vectorStore.search") = <<>>
             /\ tool.error = "store" =>
                   /\ Len(CallsOn("vectorStore.search")) = 1
                   /\ tool.calls[2].arg = Embed(tool.input.query.v))
    /\ [](tool.pc = "returned" =>
             /\ Len(tool.calls) = 2
             /\ tool.calls[2].arg = Embed(tool.input.query.v)
             /\ tool.embedding = Embed(tool.input.query.v))
    /\ [][tool.pc = "failed" => tool' = tool]_vars

\* C23 witness: the embedding call of an invocation failed, against a store
\* that holds rows, and the invocation failed after that one call.
C23_Witness ==
    /\ tool.pc = "failed"
    /\ tool.error = "embedding"
    /\ Len(tool.calls) = 1
    /\ Len(store) > 0

----------------------------------------------------------------------------
(* Further claims about the vector store, checked under SpecVS *)

\* The stored rows of valid shape whose similarity to the query of the call
\* is at least the threshold of the call
ValidAtThreshold ==
    {i \in 1..Len(store) : SchemaOk(Scored[i]) /\ AtLeastThreshold(Scored[i])}

\* The reading of C26: a search returns min(limit, k) results, k being the
\* number of stored rows of valid shape with similarity >= threshold, so
\* that a malformed row never takes the place of a valid one.
C26_MinLimitValid ==
    Returned =>
        Len(vsCall.results) = Min(vsCall.limit, Cardinality(ValidAtThreshold))

----------------------------------------------------------------------------
(* useCommandHistory: the input of the terminal and its command history,   *)
(* walked with the arrow keys                                              *)

Commands == {"q1", "q2"}

\* What may be typed into the input
InputTexts == {"", " ", "q1", "q2"}

\* addToHistory on a history h
AddedToHistory(h, command) ==
    [h EXCEPT !.commandHistory = Append(@, command), !.historyIndex = -1]

\* resetHistoryIndex on a history h
HistoryIndexReset(h) == [h EXCEPT !.historyIndex = -1]

\* commandHistory[commandHistory.length - 1 - newIndex] || ''
HistoryEntry(h, newIndex) ==
    LET k == Len(h.commandHistory) - 1 - newIndex     \* index from 0
    IN IF k < 0 \/ k > Len(h.commandHistory) - 1 THEN ""
       ELSE h.commandHistory[k + 1]

setInput(value) ==
    /\ hist' = [hist EXCEPT !.input = value]
    /\ UNCHANGED <<term, otherThanUI>>

addToHistory(command) ==
    /\ Len(hist.commandHistory) < MaxHistory
    /\ hist' = AddedToHistory(hist, command)
    /\ UNCHANGED <<term, otherThanUI>>

resetHistoryIndex ==
    /\ hist' = HistoryIndexReset(hist)
    /\ UNCHANGED <<term, otherThanUI>>

\* (mutant) ArrowUp goes on past the oldest command
ArrowUpUnbounded ==
    /\ Len(hist.commandHistory) > 0
    /\ hist.historyIndex < MaxHistory
    /\ LET newIndex == hist.historyIndex + 1
       IN hist' = [hist EXCEPT !.historyIndex = newIndex,
                               !.input = HistoryEntry(hist, newIndex)]
    /\ UNCHANGED <<term, otherThanUI>>

\* handleKeyDown with ArrowUp
ArrowUp ==
    /\ IF Len(hist.commandHistory) > 0
       THEN LET newIndex ==
                    IF hist.historyIndex < Len(hist.commandHistory) - 1
                    THEN hist.historyIndex + 1
                    ELSE hist.historyIndex
            IN hist' = [hist EXCEPT !.historyIndex = newIndex,
                                    !.input = HistoryEntry(hist, newIndex)]
       ELSE hist' = hist
    /\ UNCHANGED <<term, otherThanUI>>

\* handleKeyDown with ArrowDown
ArrowDown ==
    /\ IF hist.historyIndex > 0
       THEN LET newIndex == hist.historyIndex - 1
            IN hist' = [hist EXCEPT !.historyIndex = newIndex,
                                    !.input = HistoryEntry(hist, newIndex)]
       ELSE IF hist.historyIndex = 0
       THEN hist' = [hist EXCEPT !.historyIndex = -1, !.input = ""]
       ELSE hist' = hist
    /\ UNCHANGED <<term, otherThanUI>>

Typed == \E value \in InputTexts : setInput(value)
Added == \E command \in Commands : addToHistory(command)

----------------------------------------------------------------------------
(* Specification of the command history: any sequence of its events *)

InitHistory ==
    /\ hist = NoHistory
    /\ term = NotMounted
    /\ store = <<>>
    /\ vsCall = NoCall
    /\ tool = ToolIdle
    /\ uiMessages = Undefined
    /\ maCalls = NoAdapterCalls
    /\ config = DEFAULT_AGENT_CONFIG
    /\ requests = NoRequests
    /\ http = HttpIdle

NextHistory == Typed \/ Added \/ resetHistoryIndex \/ ArrowUp \/ ArrowDown

SpecHistory == InitHistory /\ [][NextHistory]_vars

----------------------------------------------------------------------------
(* Claims about the command history, checked under SpecHistory *)

\* C30: the index stays between -1 and the index of the oldest command;
\* the list of commands only grows, by appending; ArrowUp moves the index by
\* one towards the oldest command and stays on it, ArrowDown moves it by one
\* towards the newest and from 0 to -1 with an empty input; and when the
\* index is 0 or more after one of the two keys, the input is the command
\* at that distance from the newest.
C30_HistoryIndex ==
    /\ [](/\ hist.historyIndex >= -1
          /\ hist.historyIndex <= Len(hist.commandHistory) - 1)
    /\ [][/\ IsPrefix(hist.commandHistory, hist'.commandHistory)
          /\ Len(hist'.commandHistory) <= Len(hist.commandHistory) + 1]_vars
    /\ [][ArrowUp =>
             /\ hist'.historyIndex =
                   Min(hist.historyIndex + 1, Len(hist.commandHistory) - 1)
             /\ hist'.commandHistory = hist.commandHistory]_vars
    /\ [][ArrowDown =>
             /\ hist'.historyIndex =
                   IF hist.historyIndex >= 0 THEN hist.historyIndex - 1 ELSE -1
             /\ hist.historyIndex = 0 => hist'.input = ""
             /\ hist'.commandHistory = hist.commandHistory]_vars
    /\ [][(ArrowUp \/ ArrowDown) /\ hist'.historyIndex >= 0 =>
             hist'.input =
                hist'.commandHistory[Len(hist'.commandHistory)
                                        - hist'.historyIndex]]_vars

\* C30 witness: with three commands in the history, ArrowUp was pressed up
\* to the oldest, which is in the input.
C30_Witness ==
    /\ Len(hist.commandHistory) = 3
    /\ hist.historyIndex = 2
    /\ hist.input = hist.commandHistory[1]
    /\ hist.commandHistory[1] # hist.commandHistory[3]

----------------------------------------------------------------------------
(* The terminal: TerminalWrapper holds isOpen, initialQuery and nodeId;    *)
(* RAGTerminal boots once, then sends the typed input and the initial      *)
(* query to the chat. An event changes the state, then the component       *)
(* renders and runs the effects whose dependencies changed, until nothing  *)
(* changes any more. Effects read the state of their render, and read the  *)
(* refs and sessionStorage as they are; timers are never cancelled.        *)

NoQuery == "<none>"          \* undefined, null
NoNode == "<none>"           \* undefined

\* event.detail of open-rag-terminal
InitialQueries == {NoQuery, "q1", "q2"}
NodeIds == {NoNode, "n1"}

\* What is typed into the input of the terminal: a blank, a question
TypedTexts == {" ", "q1"}

\* no call of sendMessage yet
NoSend == [text |-> NoQuery]

\* the messages of generateBootSequence
BootMessageCount == 7

\* The timers the boot effect sets, in the order of their delays: one for
\* each boot message (0 to 720 ms), then the one that ends the boot (900 ms)
BootTimers ==
    [i \in 1..(BootMessageCount + 1) |->
        IF i <= BootMessageCount THEN [kind |-> "message", text |-> i]
        ELSE [kind |-> "ready", text |-> 0]]

\* a string that counts as true
Truthy(q) == q # NoQuery /\ q # ""

\* String.prototype.trim, on the texts of the model
Trim(text) == IF text = " " THEN "" ELSE text

\* isLoading of the render of u
isLoading(u) == u.t.status \in {"submitted", "streaming"}

\* the terminal is on the screen (not the floating icon, not nothing)
Rendered(t) == t.isOpen \/ t.isClosing

\* the state of a terminal mounted in a session that has booted or not
Mounted(hasBooted) ==
    [mounted |-> TRUE,
     isOpen |-> FALSE, initialQuery |-> NoQuery, nodeId |-> NoNode,
     bootPhase |-> IF hasBooted THEN "ready" ELSE "idle",
     bootMessages |-> <<>>,
     pendingQuery |-> NoQuery,
     isClosing |-> FALSE,
     hasEverOpened |-> hasBooted,
     hasSentInitialQuery |-> FALSE,
     status |-> "ready",
     sessionBooted |-> hasBooted,
     timers |-> <<>>,          \* the timers of each boot, in order
     closeTimers |-> 0,
     lastSend |-> NoSend,      \* the last call of sendMessage
     autoSends |-> 0]          \* auto-sends since the last opening

\* sendMessage of useChat, called in the render s: the chat is submitted
SendMessage(s, a, message, auto) ==
    [a EXCEPT !.t.lastSend = [text |-> message, status |-> a.t.status,
                              bootPhase |-> s.t.bootPhase, auto |-> auto],
              !.t.status = "submitted",
              !.t.autoSends = IF auto THEN @ + 1 ELSE @]

\* The pending-query effect of the render s that follows the render prev
PendingQueryEffect(prev, s, a) ==
    IF <<prev.t.initialQuery, prev.t.isOpen>> = <<s.t.initialQuery, s.t.isOpen>>
    THEN a
    ELSE IF Truthy(s.t.initialQuery) /\ s.t.isOpen
    THEN [a EXCEPT !.t.pendingQuery = s.t.initialQuery,
                   !.t.hasSentInitialQuery = FALSE]
    ELSE a

\* (mutant) the boot effect starts a boot whenever the session has not
\* booted, whatever bootPhase is
BootEffectAnyPhase(prev, s, a) ==
    IF <<prev.t.isOpen, prev.t.bootPhase, prev.t.nodeId>>
         = <<s.t.isOpen, s.t.bootPhase, s.t.nodeId>>
    THEN a
    ELSE
      LET hasBooted == a.t.sessionBooted
          b == IF s.t.isOpen /\ ~hasBooted
               THEN [a EXCEPT !.t.hasEverOpened = TRUE,
                              !.t.bootPhase = "booting",
                              !.t.bootMessages = <<>>,
                              !.t.timers = Append(@, BootTimers)]
               ELSE IF s.t.isOpen /\ hasBooted
               THEN [a EXCEPT !.t.hasEverOpened = TRUE,
                              !.t.bootPhase = "ready"]
               ELSE a
      IN IF ~s.t.isOpen
         THEN [b EXCEPT !.h = HistoryIndexReset(@),
                        !.t.hasSentInitialQuery = FALSE]
         ELSE b

\* The boot effect of the render s that follows the render prev
BootEffect(prev, s, a) ==
    IF <<prev.t.isOpen, prev.t.bootPhase, prev.t.nodeId>>
         = <<s.t.isOpen, s.t.bootPhase, s.t.nodeId>>
    THEN a
    ELSE
      LET hasBooted == a.t.sessionBooted
          b == IF s.t.isOpen /\ s.t.bootPhase = "idle" /\ ~hasBooted
               THEN [a EXCEPT !.t.hasEverOpened = TRUE,
                              !.t.bootPhase = "booting",
                              !.t.bootMessages = <<>>,
                              !.t.timers = Append(@, BootTimers)]
               ELSE IF s.t.isOpen /\ hasBooted
               THEN [a EXCEPT !.t.hasEverOpened = TRUE,
                              !.t.bootPhase = "ready"]
               ELSE a
      IN IF ~s.t.isOpen
         THEN [b EXCEPT !.h = HistoryIndexReset(@),
                        !.t.hasSentInitialQuery = FALSE]
         ELSE b

\* The auto-send effect of the render s that follows the render prev
AutoSendEffect(prev, s, a) ==
    IF <<prev.t.bootPhase, prev.t.pendingQuery, isLoading(prev)>>
         = <<s.t.bootPhase, s.t.pendingQuery, isLoading(s)>>
    THEN a
    ELSE IF /\ s.t.bootPhase = "ready"
            /\ Truthy(s.t.pendingQuery)
            /\ ~a.t.hasSentInitialQuery
            /\ ~isLoading(s)
    THEN LET b == [a EXCEPT !.t.hasSentInitialQuery = TRUE,
                            !.h = AddedToHistory(@, s.t.pendingQuery)]
             c == SendMessage(s, b, s.t.pendingQuery, TRUE)
         IN [c EXCEPT !.t.pendingQuery = NoQuery]
    ELSE a

\* The renders that follow a change of state: s is rendered after prev, its
\* effects run in the order of the source, and what they set is rendered next
RECURSIVE Settle(_, _)
Settle(prev, s) ==
    LET a1 == PendingQueryEffect(prev, s, s)
        a2 == BootEffect(prev, s, a1)
        a3 == AutoSendEffect(prev, s, a2)
    IN IF a3 = s THEN s ELSE Settle(s, a3)

\* the terminal and its command history, as one state
Rendering == [t |-> term, h |-> hist]

\* An event handler has changed the state to u
Event(u) ==
    LET r == Settle(Rendering, u)
    IN /\ term' = r.t
       /\ hist' = r.h
       /\ UNCHANGED otherThanUI

\* TerminalWrapper.handleOpen: the page asks for the terminal
handleOpen(q, n) ==
    /\ term.mounted
    /\ Truthy(q) => Len(hist.commandHistory) + 1 <= MaxSends
    /\ Event([Rendering EXCEPT !.t.isOpen = TRUE, !.t.initialQuery = q,
                               !.t.nodeId = n, !.t.autoSends = 0])

\* TerminalWrapper.handleReopen: a click on the floating icon
handleReopen ==
    /\ term.mounted
    /\ ~Rendered(term) /\ term.hasEverOpened
    /\ Event([Rendering EXCEPT !.t.isOpen = TRUE, !.t.autoSends = 0])

\* RAGTerminal.handleClose: Escape or the close button
handleClose ==
    /\ term.mounted
    /\ Rendered(term)
    /\ term.closeTimers < MaxCloseTimers
    /\ Event([Rendering EXCEPT !.t.isClosing = TRUE,
                               !.t.closeTimers = @ + 1])

\* The timer of handleClose fires: TerminalWrapper.handleClose
CloseTimerFires ==
    /\ term.mounted
    /\ term.closeTimers > 0
    /\ Event([Rendering EXCEPT !.t.closeTimers = @ - 1,
                               !.t.isClosing = FALSE,
                               !.t.isOpen = FALSE,
                               !.t.initialQuery = NoQuery,
                               !.t.nodeId = NoNode])

\* The next timer of the boot b fires
BootTimerFires(b) ==
    /\ term.mounted
    /\ b \in 1..Len(term.timers)
    /\ LET timer == Head(term.timers[b])
           rest == IF Len(term.timers[b]) = 1
                   THEN [i \in 1..(Len(term.timers) - 1) |->
                            IF i < b THEN term.timers[i]
                            ELSE term.timers[i + 1]]
                   ELSE [term.timers EXCEPT ![b] = Tail(@)]
       IN IF timer.kind = "message"
          THEN Event([Rendering EXCEPT
                        !.t.timers = rest,
                        !.t.bootMessages = Append(@, timer.text)])
          ELSE Event([Rendering EXCEPT
                        !.t.timers = rest,
                        !.t.bootPhase = "ready",
                        !.t.sessionBooted = TRUE])

\* onInputChange of the input, which is disabled until the boot is over
onInputChange(value) ==
    /\ term.mounted
    /\ Rendered(term) /\ term.bootPhase = "ready"
    /\ Event([Rendering EXCEPT !.h.input = value])

\* (mutant) handleSubmit sends while a response is in flight
handleSubmitWhileLoading ==
    /\ term.mounted
    /\ Rendered(term)
    /\ IF Trim(hist.input) = ""
       THEN Event(Rendering)
       ELSE /\ Len(hist.commandHistory)
                 + (IF Truthy(term.pendingQuery) THEN 1 ELSE 0) + 1 <= MaxSends
            /\ LET a == [Rendering EXCEPT
                            !.h = AddedToHistory(@, Trim(hist.input))]
                   b == SendMessage(Rendering, a, hist.input, FALSE)
               IN Event([b EXCEPT !.h.input = ""])

\* handleSubmit of the input form
handleSubmit ==
    /\ term.mounted
    /\ Rendered(term)
    /\ IF Trim(hist.input) = "" \/ isLoading(Rendering)
       THEN Event(Rendering)
       ELSE /\ Len(hist.commandHistory)
                 + (IF Truthy(term.pendingQuery) THEN 1 ELSE 0) + 1 <= MaxSends
            /\ LET a == [Rendering EXCEPT
                            !.h = AddedToHistory(@, Trim(hist.input))]
                   b == SendMessage(Rendering, a, hist.input, FALSE)
               IN Event([b EXCEPT !.h.input = ""])

\* useChat: the first part of the response arrives
ResponseStarts ==
    /\ term.mounted
    /\ term.status = "submitted"
    /\ Event([Rendering EXCEPT !.t.status = "streaming"])

\* useChat: the response is complete
ResponseEnds ==
    /\ term.mounted
    /\ term.status \in {"submitted", "streaming"}
    /\ Event([Rendering EXCEPT !.t.status = "ready"])

\* useChat: the request or the response fails
ResponseFails ==
    /\ term.mounted
    /\ term.status \in {"submitted", "streaming"}
    /\ Event([Rendering EXCEPT !.t.status = "error"])

Opened == \E q \in InitialQueries, n \in NodeIds : handleOpen(q, n)
BootTimer == \E b \in 1..Len(term.timers) : BootTimerFires(b)
InputChanged == \E value \in TypedTexts : onInputChange(value)

----------------------------------------------------------------------------
(* Specification of the terminal: mounted on a page, in a session that has *)
(* booted or not, and then any sequence of its events                      *)

InitTerminal ==
    /\ hist = NoHistory
    /\ \E hasBooted \in BOOLEAN : term = Mounted(hasBooted)
    /\ store = <<>>
    /\ vsCall = NoCall
    /\ tool = ToolIdle
    /\ uiMessages = Undefined
    /\ maCalls = NoAdapterCalls
    /\ config = DEFAULT_AGENT_CONFIG
    /\ requests = NoRequests
    /\ http = HttpIdle

NextTerminal ==
    \/ handleReopen
    \/ Opened
    \/ handleClose
    \/ CloseTimerFires
    \/ BootTimer
    \/ InputChanged
    \/ handleSubmit
    \/ ResponseStarts
    \/ ResponseEnds
    \/ ResponseFails

SpecTerminal == InitTerminal /\ [][NextTerminal]_vars

----------------------------------------------------------------------------
(* Claims about the terminal, checked under SpecTerminal *)

\* C28: over any sequence of openings and closings, bootPhase only goes
\* from idle to booting and from booting to ready, so it never leaves ready;
\* at most one boot has timers pending; the boot messages are never taken
\* back, and each of them is emitted at most once.
C28_BootsOnce ==
    /\ [][term'.bootPhase # term.bootPhase =>
             <<term.bootPhase, term'.bootPhase>>
                \in {<<"idle", "booting">>, <<"booting", "ready">>}]_vars
    /\ [][IsPrefix(term.bootMessages, term'.bootMessages)]_vars
    /\ [](/\ Len(term.timers) <= 1
          /\ Len(term.bootMessages) <= BootMessageCount
          /\ \A i, j \in 1..Len(term.bootMessages) :
                term.bootMessages[i] = term.bootMessages[j] => i = j
          /\ term.sessionBooted => term.bootPhase = "ready")

\* C28 witness: the terminal was closed while it was booting, and all the
\* boot messages have been emitted since; the boot is about to end.
C28_Witness ==
    /\ ~term.isOpen /\ ~term.isClosing
    /\ term.bootPhase = "booting"
    /\ Len(term.bootMessages) = BootMessageCount

\* C29: every call of sendMessage finds the chat with no response in
\* flight; an auto-sent query is sent with bootPhase ready and is not empty;
\* the input sent by hand is not blank; and no opening of the terminal is
\* followed by more than one auto-send.
C29_SendGuarded ==
    /\ term.autoSends <= 1
    /\ term.lastSend # NoSend =>
          /\ term.lastSend.status \notin {"submitted", "streaming"}
          /\ term.lastSend.auto => /\ term.lastSend.bootPhase = "ready"
                                   /\ Truthy(term.lastSend.text)
          /\ ~term.lastSend.auto => Trim(term.lastSend.text) # ""

\* C29 witness: the query of an opening is held back while the response
\* to the input sent by hand is streaming, in a terminal that has booted.
C29_Witness ==
    /\ term.bootPhase = "ready"
    /\ term.pendingQuery = "q2"
    /\ term.status = "streaming"
    /\ term.lastSend # NoSend
    /\ ~term.lastSend.auto

====
